---------------------------- MODULE Spec2Model ----------------------------
(***************************************************************************)
(* ShellCraft: the read-parse-execute loop of ProjectOs/project/           *)
(* ShellCraft.py together with the learned-command store of                *)
(* autocorrect.py.                                                         *)
(*                                                                         *)
(* Text is modelled at character level: a character is a one-character     *)
(* string, and a line, a token, a path and the content of a file or of a   *)
(* stream are sequences of characters.  A stage is a sequence of tokens    *)
(* and `commands' is a sequence of stages, as in the source.               *)
(*                                                                         *)
(* One step of the model is one iteration of shell_loop: it reads a line,  *)
(* parses it, runs execute_commands to its return (or to the exception     *)
(* that leaves it) and assigns `status'.                                   *)
(*                                                                         *)
(* Spec is the shell on its own, with no interrupt.  SpecInterrupts adds   *)
(* KeyboardInterrupt in input() and in the wait for a process.  SpecStore  *)
(* is learn_command run step by step by several shells that share a        *)
(* working directory.                                                      *)
(***************************************************************************)
EXTENDS Integers, Sequences, FiniteSets, TLC

\* Number of lines the input stream delivers before end-of-input.
MaxLines == 2

----------------------------------------------------------------------------
(* Characters and words *)

SP == " "
NL == "\n"
PIPE == "|"
LT == <<"<">>
GT == <<">">>
DQ == "\""
SQ == "'"
BS == "\\"

w_cd == <<"c", "d">>
w_exit == <<"e", "x", "i", "t">>
w_echo == <<"e", "c", "h", "o">>
w_cat == <<"c", "a", "t">>
w_true == <<"t", "r", "u", "e">>
w_Exit == <<"E", "x", "i", "t">>
w_EXIT == <<"E", "X", "I", "T">>
w_dc == <<"d", "c">>
w_exot == <<"e", "x", "o", "t">>
w_ct == <<"c", "t">>
w_zz == <<"z", "z">>
w_hi == <<"h", "i">>
w_f == <<"f">>
w_o == <<"o">>
w_m == <<"m">>

\* str.lower() on the characters that occur in the model.
LowerChar(c) ==
    CASE c = "E" -> "e"
      [] c = "X" -> "x"
      [] c = "I" -> "i"
      [] c = "T" -> "t"
      [] c = "D" -> "d"
      [] c = "C" -> "c"
      [] OTHER -> c

Lower(w) == [k \in 1..Len(w) |-> LowerChar(w[k])]

\* sep.join(parts)
RECURSIVE Join(_, _)
Join(parts, sep) ==
    IF parts = <<>> THEN <<>>
    ELSE IF Len(parts) = 1 THEN parts[1]
    ELSE parts[1] \o sep \o Join(Tail(parts), sep)

\* Concatenation of a sequence of character sequences.
RECURSIVE Concat(_)
Concat(parts) ==
    IF parts = <<>> THEN <<>> ELSE parts[1] \o Concat(Tail(parts))

Contains(seq, x) == \E k \in 1..Len(seq) : seq[k] = x

\* list.index(x): the first position of x (1-based here, 0-based in Python).
IndexOf(seq, x) == CHOOSE k \in 1..Len(seq) : seq[k] = x /\ \A j \in 1..(k-1) : seq[j] # x

----------------------------------------------------------------------------
(* The tokenizer: line.split('|') and shlex.split *)

whitespace == {" ", "\t", "\r", "\n"}
quotes == {DQ, SQ}
escape == {BS}
escapedquotes == {DQ}

\* line.strip() is empty
IsBlank(s) == \A k \in 1..Len(s) : s[k] \in whitespace

\* str.split(sep) for a one-character separator: every occurrence splits,
\* and empty pieces are kept.
RECURSIVE SplitFrom(_, _, _, _)
SplitFrom(s, k, cur, acc) ==
    IF k > Len(s) THEN Append(acc, cur)
    ELSE IF s[k] = PIPE THEN SplitFrom(s, k + 1, <<>>, Append(acc, cur))
    ELSE SplitFrom(s, k + 1, Append(cur, s[k]), acc)

SplitPipe(s) == SplitFrom(s, 1, <<>>, <<>>)

\* shlex.split(s) (posix, whitespace_split, no comments).  state is " "
\* (between tokens), "a" (inside a word), a quote character or the escape
\* character; the result is [ok, toks], ok = FALSE standing for ValueError
\* ("No closing quotation" / "No escaped character").
RECURSIVE read_token(_, _, _, _, _, _, _)
read_token(s, k, state, escapedstate, token, quoted, acc) ==
    IF k > Len(s) THEN
        IF state \in quotes \/ state \in escape
        THEN [ok |-> FALSE, toks |-> acc]
        ELSE [ok |-> TRUE,
              toks |-> IF token # <<>> \/ quoted THEN Append(acc, token) ELSE acc]
    ELSE LET c == s[k] IN
        IF state = " " THEN
            IF c \in whitespace THEN read_token(s, k + 1, " ", "a", <<>>, FALSE, acc)
            ELSE IF c \in escape THEN read_token(s, k + 1, c, "a", <<>>, FALSE, acc)
            ELSE IF c \in quotes THEN read_token(s, k + 1, c, "a", <<>>, TRUE, acc)
            ELSE read_token(s, k + 1, "a", "a", <<c>>, FALSE, acc)
        ELSE IF state \in quotes THEN
            IF c = state THEN read_token(s, k + 1, "a", "a", token, TRUE, acc)
            ELSE IF c \in escape /\ state \in escapedquotes
                 THEN read_token(s, k + 1, c, state, token, TRUE, acc)
            ELSE read_token(s, k + 1, state, escapedstate, Append(token, c), TRUE, acc)
        ELSE IF state \in escape THEN
            LET kept == IF escapedstate \in quotes /\ c # state /\ c # escapedstate
                        THEN Append(token, state) ELSE token
            IN read_token(s, k + 1, escapedstate, "a", Append(kept, c), quoted, acc)
        ELSE \* state = "a"
            IF c \in whitespace THEN
                read_token(s, k + 1, " ", "a", <<>>, FALSE,
                           IF token # <<>> \/ quoted THEN Append(acc, token) ELSE acc)
            ELSE IF c \in quotes THEN read_token(s, k + 1, c, "a", token, TRUE, acc)
            ELSE IF c \in escape THEN read_token(s, k + 1, c, "a", token, quoted, acc)
            ELSE read_token(s, k + 1, "a", "a", Append(token, c), quoted, acc)

shlex_split(s) == read_token(s, 1, " ", "a", <<>>, FALSE, <<>>)

\* commands = [shlex.split(cmd) for cmd in line.split('|')]; ok = FALSE when
\* one of the pieces raises ValueError.
ParseLine(ln) ==
    LET command_strings == SplitPipe(ln)
        parsed == [k \in 1..Len(command_strings) |-> shlex_split(command_strings[k])]
    IN [ok |-> \A k \in 1..Len(parsed) : parsed[k].ok,
        commands |-> [k \in 1..Len(parsed) |-> parsed[k].toks]]

----------------------------------------------------------------------------
(* The environment: directories, files, programs on the search path *)

d_home == <<"/", "h">>      \* os.path.expanduser("~")
d_work == <<"/", "w">>      \* the directory the shell is started in
d_ro == <<"/", "r">>        \* a directory the user may enter but not write to

Dirs == {d_home, d_work, d_ro}
Writable(d) == d # d_ro

\* A path is the absolute name of one of the directories or a plain name,
\* looked up in the working directory.  fs[d] maps the names of the regular
\* files of directory d to their content.
FileData == <<"x", NL>>     \* initial content of file f of d_work
TtyInput == <<"k", NL>>     \* what a process reading the terminal receives

InitFs == [d \in Dirs |-> IF d = d_work THEN (w_f :> FileData) ELSE << >>]

Exists(fs, cwd, p) == p \in DOMAIN fs[cwd]

\* open(p, 'r'): err is "" on success, else the name of the exception.
OpenRead(fs, cwd, p) ==
    IF p \in Dirs THEN [err |-> "IsADirectoryError", data |-> <<>>]
    ELSE IF Exists(fs, cwd, p) THEN [err |-> "", data |-> fs[cwd][p]]
    ELSE [err |-> "FileNotFoundError", data |-> <<>>]

\* The file system after content is stored under name p of directory d.
Store(fs, d, p, content) ==
    [fs EXCEPT ![d] = [n \in (DOMAIN fs[d]) \cup {p} |->
                          IF n = p THEN content ELSE fs[d][n]]]

\* open(p, 'w'): creates or truncates the file.
OpenWrite(fs, cwd, p) ==
    IF p \in Dirs THEN [err |-> "IsADirectoryError", fs |-> fs]
    ELSE IF p = <<>> THEN [err |-> "FileNotFoundError", fs |-> fs]
    ELSE IF ~Writable(cwd) /\ ~Exists(fs, cwd, p)
         THEN [err |-> "PermissionError", fs |-> fs]
    ELSE [err |-> "", fs |-> Store(fs, cwd, p, <<>>)]

\* os.chdir(p)
Chdir(fs, cwd, p) ==
    IF p \in Dirs THEN [err |-> "", cwd |-> p]
    ELSE IF Exists(fs, cwd, p) THEN [err |-> "NotADirectoryError", cwd |-> cwd]
    ELSE [err |-> "FileNotFoundError", cwd |-> cwd]

\* The programs found on the search path.
Executables == {w_echo, w_cat, w_true, w_Exit}

\* What a spawned program does: echo prints its arguments, cat copies its
\* standard input or the files it is given, true and Exit print nothing.
RunProgram(argv, stdin, fs, cwd) ==
    IF argv[1] = w_echo THEN
        [stdout |-> Join(Tail(argv), <<SP>>) \o <<NL>>, stderr |-> "", returncode |-> 0]
    ELSE IF argv[1] = w_cat THEN
        IF Len(argv) = 1 THEN [stdout |-> stdin, stderr |-> "", returncode |-> 0]
        ELSE LET rd == [k \in 2..Len(argv) |-> OpenRead(fs, cwd, argv[k])]
                 bad == \E k \in 2..Len(argv) : rd[k].err # ""
             IN [stdout |-> Concat([k \in 1..(Len(argv) - 1) |-> rd[k + 1].data]),
                 stderr |-> IF bad THEN "cat: No such file or directory" ELSE "",
                 returncode |-> IF bad THEN 1 ELSE 0]
    ELSE [stdout |-> <<>>, stderr |-> "", returncode |-> 0]

----------------------------------------------------------------------------
(* autocorrect.py *)

COMMON_COMMANDS ==
    << <<"l", "s">>, w_cat, <<"g", "r", "e", "p">>, w_cd, w_echo, <<"p", "w", "d">>,
       <<"m", "k", "d", "i", "r">>, <<"r", "m", "d", "i", "r">>, <<"r", "m">>,
       <<"c", "p">>, <<"m", "v">>, <<"t", "o", "u", "c", "h">>,
       <<"c", "l", "e", "a", "r">>, w_exit, <<"f", "i", "n", "d">>,
       <<"h", "e", "a", "d">>, <<"t", "a", "i", "l">>, <<"s", "o", "r", "t">>,
       <<"c", "h", "m", "o", "d">>, <<"c", "h", "o", "w", "n">>, <<"m", "a", "n">>,
       <<"l", "e", "s", "s">>, <<"m", "o", "r", "e">> >>

LEARN_FILE ==
    <<"l", "e", "a", "r", "n", "e", "d", "_", "c", "m", "d", "s", ".", "j", "s", "o", "n">>

\* The entries of TYPO_CORRECTIONS for the words typed in the model.
TYPO_CORRECTIONS == (w_dc :> w_cd) @@ (w_exot :> w_exit) @@ (w_ct :> w_cat)

\* json.dump(commands, f, indent=2) for a list of plain names.
JsonDump(commands) ==
    IF commands = <<>> THEN <<"[", "]">>
    ELSE <<"[", NL, SP, SP>>
         \o Join([k \in 1..Len(commands) |-> <<DQ>> \o commands[k] \o <<DQ>>],
                 <<",", NL, SP, SP>>)
         \o <<NL, "]">>

\* The names learn_command can add: programs not among COMMON_COMMANDS.
Learnable == {e \in Executables : ~Contains(COMMON_COMMANDS, e)}

\* The lists json.load can give back: the lists of learnable names.
JsonLists == UNION {[1..n -> Learnable] : n \in 0..Cardinality(Learnable)}

\* json.load: the list a content is the dump of; ok = FALSE is JSONDecodeError.
JsonLoad(content) ==
    IF \E l \in JsonLists : JsonDump(l) = content
    THEN [ok |-> TRUE, value |-> CHOOSE l \in JsonLists : JsonDump(l) = content]
    ELSE [ok |-> FALSE, value |-> <<>>]

\* except json.JSONDecodeError: return []
ValueOrEmpty(j) == IF j.ok THEN j.value ELSE <<>>

load_learned_commands(fs, cwd) ==
    IF Exists(fs, cwd, LEARN_FILE) THEN ValueOrEmpty(JsonLoad(fs[cwd][LEARN_FILE]))
    ELSE <<>>

\* open(LEARN_FILE, "w") and json.dump; err names the exception of open.
\* json.dump(commands, f, indent=2) into the file that open has truncated.
DumpInto(w, cwd, commands) ==
    IF w.err # "" THEN w
    ELSE [err |-> "", fs |-> Store(w.fs, cwd, LEARN_FILE, JsonDump(commands))]

save_learned_commands(fs, cwd, commands) ==
    DumpInto(OpenWrite(fs, cwd, LEARN_FILE), cwd, commands)

\* Lines 134-136 of learn_command, learned being what was loaded.
LearnInto(fs, cwd, command, learned) ==
    IF ~Contains(COMMON_COMMANDS, command) /\ ~Contains(learned, command)
    THEN save_learned_commands(fs, cwd, Append(learned, command))
    ELSE [err |-> "", fs |-> fs]

learn_command(fs, cwd, command) ==
    LearnInto(fs, cwd, command, load_learned_commands(fs, cwd))

\* Step 2 and 3 of autocorrect_command: the first learned command that
\* matches without regard to case, else the command as typed.
MatchLearned(command, cmd_lower, learned) ==
    IF \E k \in 1..Len(learned) : cmd_lower = Lower(learned[k])
    THEN learned[CHOOSE k \in 1..Len(learned) :
                     /\ cmd_lower = Lower(learned[k])
                     /\ \A j \in 1..(k - 1) : cmd_lower # Lower(learned[j])]
    ELSE command

Corrected(fs, cwd, command, cmd_lower) ==
    IF cmd_lower \in DOMAIN TYPO_CORRECTIONS THEN TYPO_CORRECTIONS[cmd_lower]
    ELSE MatchLearned(command, cmd_lower, load_learned_commands(fs, cwd))

autocorrect_command(fs, cwd, command) == Corrected(fs, cwd, command, Lower(command))

----------------------------------------------------------------------------
(* ShellCraft.py: built-ins and execute_commands *)

Continue == 1       \* the status that keeps shell_loop running
Terminate == 0      \* the status that ends shell_loop

BUILTIN_COMMANDS == {w_cd, w_exit}

\* The state of one run of execute_commands.
\*   prev_pipe  what the next stage gets as stdin: sys.stdin, an open file
\*              (h is its index in handles) or a str (a captured stdout)
\*   stdout_fd  0 for sys.stdout, else the index in handles of the output file
\*   handles    the files opened by this run: [path, mode, open]
\*   out        what was printed on sys.stdout
\*   err        the messages printed on sys.stderr by the shell itself
\*   reports    the calls of display_error: [command, details]
\*   spawned    the processes run: [stage, argv, stdin, input, stdout, stderr, returncode]
\*   recorded   the names passed to learn_command
\*   builtins   the built-in handlers invoked: [name, args]
\*   events     the process operations in the order they happened:
\*              [op, stage] with op "spawn" (the process is created) or
\*              "wait" (the shell has waited for it to terminate)
\*   sigint     whether an interrupt is delivered while the shell waits for
\*              the process it has spawned
\*   A handle is open until close() is called on it.
\*   outcome    "running", "return" (ret is the value) or "raise" (exc is the exception)
NewRun(commands, fs, cwd) ==
    [commands |-> commands, fs |-> fs, cwd |-> cwd,
     prev_pipe |-> [kind |-> "sys.stdin", data |-> TtyInput, h |-> 0],
     stdout_fd |-> 0, handles |-> <<>>,
     out |-> <<>>, err |-> <<>>, reports |-> <<>>, spawned |-> <<>>,
     recorded |-> <<>>, builtins |-> <<>>, events |-> <<>>, sigint |-> FALSE,
     outcome |-> "running", ret |-> Continue, exc |-> ""]

Return(x, v) == [x EXCEPT !.outcome = "return", !.ret = v]
Raise(x, e) == [x EXCEPT !.outcome = "raise", !.exc = e]
PrintErr(x, msg) == [x EXCEPT !.err = Append(@, msg)]
display_error(x, command, details) ==
    [x EXCEPT !.reports = Append(@, [command |-> command, details |-> details])]
CloseHandle(x, h) == [x EXCEPT !.handles[h].open = FALSE]

shell_cd(x, args) ==
    LET target_dir == IF Len(args) < 2 THEN d_home ELSE args[2]
        c == Chdir(x.fs, x.cwd, target_dir)
    IN IF c.err = "" THEN Return([x EXCEPT !.cwd = c.cwd], Continue)
       ELSE IF c.err = "FileNotFoundError"
       THEN Return(PrintErr(x, "cd: no such file or directory"), Continue)
       ELSE Raise(x, c.err)

\* shell_exit as it would be if the arguments decided the status.
shell_exit_ArgsMatter(x, args) ==
    Return(x, IF Len(args) > 1 THEN Continue ELSE Terminate)

shell_exit(x, args) == Return(x, Terminate)

RunBuiltin(x, args) ==
    LET y == [x EXCEPT !.builtins = Append(@, [name |-> args[1], args |-> Tail(args)])]
    IN IF args[1] = w_cd THEN shell_cd(y, args) ELSE shell_exit(y, args)

\* Lines 70-79: input redirection on commands[0].
RedirectInput(x) ==
    LET first == x.commands[1] IN
    IF ~Contains(first, LT) THEN x
    ELSE LET index == IndexOf(first, LT) IN
         IF index + 1 > Len(first) THEN Raise(x, "IndexError")
         ELSE LET filename == first[index + 1]
                  r == OpenRead(x.fs, x.cwd, filename)
              IN IF r.err = "FileNotFoundError"
                 THEN Return(PrintErr(x, "no such file or directory"), Continue)
                 ELSE IF r.err # "" THEN Raise(x, r.err)
                 ELSE [x EXCEPT
                         !.handles = Append(@, [path |-> filename, mode |-> "r", open |-> TRUE]),
                         !.prev_pipe = [kind |-> "file", data |-> r.data,
                                        h |-> Len(x.handles) + 1],
                         !.commands[1] = SubSeq(first, 1, index - 1)]

\* Lines 81-86: output redirection on commands[-1].
RedirectOutput(x) ==
    LET n == Len(x.commands)
        last == x.commands[n]
    IN
    IF ~Contains(last, GT) THEN x
    ELSE LET index == IndexOf(last, GT) IN
         IF index + 1 > Len(last) THEN Raise(x, "IndexError")
         ELSE LET filename == last[index + 1]
                  w == OpenWrite(x.fs, x.cwd, filename)
              IN IF w.err # "" THEN Raise(x, w.err)
                 ELSE [x EXCEPT
                         !.fs = w.fs,
                         !.handles = Append(@, [path |-> filename, mode |-> "w", open |-> TRUE]),
                         !.stdout_fd = Len(x.handles) + 1,
                         !.commands[n] = SubSeq(last, 1, index - 1)]

\* Lines 129-133: the file the stage read from is closed and the captured
\* stdout becomes prev_pipe.
ManagePipes(x, result) ==
    [(IF x.prev_pipe.kind # "sys.stdin" THEN CloseHandle(x, x.prev_pipe.h) ELSE x)
        EXCEPT !.prev_pipe = [kind |-> "str", data |-> result.stdout, h |-> 0]]

\* Line 127 and the handler of line 139 for an exception of learn_command.
AfterLearn(x, command_args, result, lc) ==
    IF lc.err # ""
    THEN Return(display_error(x, Join(command_args, <<SP>>), lc.err), Continue)
    ELSE ManagePipes([x EXCEPT !.fs = lc.fs], result)

\* Learn as it would be if only a process that exited with status 0 were
\* recorded.
Learn_OnlyOnSuccess(x, command_args, result) ==
    IF result.returncode # 0 THEN ManagePipes(x, result)
    ELSE AfterLearn([x EXCEPT !.recorded = Append(@, command_args[1])], command_args,
                    result, learn_command(x.fs, x.cwd, command_args[1]))

Learn(x, command_args, result) ==
    AfterLearn([x EXCEPT !.recorded = Append(@, command_args[1])], command_args, result,
               learn_command(x.fs, x.cwd, command_args[1]))

\* Lines 119-125: the captured stdout is printed, and a failure that wrote
\* to stderr is shown by display_error.
AfterRun(x, i, command_args, result) ==
    Learn([(IF result.returncode # 0 /\ result.stderr # ""
            THEN display_error(x, Join(command_args, <<SP>>), result.stderr) ELSE x)
              EXCEPT !.spawned = Append(@, [stage |-> i, argv |-> command_args,
                                            stdin |-> x.prev_pipe.kind,
                                            input |-> x.prev_pipe.data,
                                            stdout |-> result.stdout,
                                            stderr |-> result.stderr,
                                            returncode |-> result.returncode]),
                     !.events = @ \o <<[op |-> "spawn", stage |-> i],
                                      [op |-> "wait", stage |-> i]>>,
                     !.out = @ \o result.stdout],
          command_args, result)

\* Lines 109-141: one external stage.  subprocess.run spawns the process and
\* waits for it to terminate before it returns; its stdout and stderr are
\* captured.  A str given as stdin
\* has no fileno (AttributeError); the other failures are those of exec.
\* KeyboardInterrupt is raised in subprocess.run while it waits: it kills the
\* process, waits for it and lets the exception through.  The output the
\* process wrote is lost, and neither `except' clause of the stage catches
\* the exception, which is no Exception.
Interrupt(x, i, command_args) ==
    Raise([x EXCEPT !.spawned = Append(@, [stage |-> i, argv |-> command_args,
                                           stdin |-> x.prev_pipe.kind,
                                           input |-> x.prev_pipe.data,
                                           stdout |-> <<>>, stderr |-> "",
                                           returncode |-> -9]),
                    !.events = @ \o <<[op |-> "spawn", stage |-> i],
                                     [op |-> "wait", stage |-> i]>>],
          "KeyboardInterrupt")

\* RunStage as it would be if a command that is not found were reported and
\* the loop went on with the next stage.
RunStage_KeepsGoing(x, i, command_args) ==
    IF x.prev_pipe.kind = "str"
    THEN Return(display_error(x, Join(command_args, <<SP>>),
                              "'str' object has no attribute 'fileno'"), Continue)
    ELSE IF command_args[1] = <<>> \/ command_args[1] \in Dirs
    THEN Return(display_error(x, Join(command_args, <<SP>>), "Permission denied"), Continue)
    ELSE IF command_args[1] \notin Executables
    THEN display_error(x, Join(command_args, <<SP>>), "Command not found")
    ELSE IF x.sigint THEN Interrupt(x, i, command_args)
    ELSE AfterRun(x, i, command_args,
                  RunProgram(command_args, x.prev_pipe.data, x.fs, x.cwd))

RunStage(x, i, command_args) ==
    IF x.prev_pipe.kind = "str"
    THEN Return(display_error(x, Join(command_args, <<SP>>),
                              "'str' object has no attribute 'fileno'"), Continue)
    ELSE IF command_args[1] = <<>> \/ command_args[1] \in Dirs
    THEN Return(display_error(x, Join(command_args, <<SP>>), "Permission denied"), Continue)
    ELSE IF command_args[1] \notin Executables
    THEN Return(display_error(x, Join(command_args, <<SP>>), "Command not found"), Continue)
    ELSE IF x.sigint THEN Interrupt(x, i, command_args)
    ELSE AfterRun(x, i, command_args,
                  RunProgram(command_args, x.prev_pipe.data, x.fs, x.cwd))

\* Lines 99-104 and the call of line 110, name being the corrected command.
RECURSIVE StageLoop(_, _)
Dispatch(x, i, command_args) ==
    IF command_args[1] \in BUILTIN_COMMANDS THEN
        IF i > 1
        THEN Return(PrintErr(x, "built-in commands cannot be piped."), Continue)
        ELSE RunBuiltin(x, command_args)
    ELSE StageLoop(RunStage(x, i, command_args), i + 1)

\* Line 96: command_args[0] = autocorrect_command(command_args[0])
Resolve(x, i, name) ==
    Dispatch([x EXCEPT !.commands[i][1] = name], i, [x.commands[i] EXCEPT ![1] = name])

\* Lines 91-151: the loop over the stages and what follows it.
StageLoop(x, i) ==
    IF x.outcome # "running" THEN x
    ELSE IF i > Len(x.commands) THEN
        Return(IF x.stdout_fd # 0 THEN CloseHandle(x, x.stdout_fd) ELSE x, Continue)
    ELSE IF x.commands[i] = <<>> THEN StageLoop(x, i + 1)
    ELSE Resolve(x, i, autocorrect_command(x.fs, x.cwd, x.commands[i][1]))

\* Lines 81-86 are reached unless lines 70-79 returned or raised.
Redirect(x) == IF x.outcome = "running" THEN RedirectOutput(x) ELSE x

execute_commands(commands, fs, cwd) ==
    StageLoop(Redirect(RedirectInput(NewRun(commands, fs, cwd))), 1)

\* execute_commands when an interrupt arrives while it waits for a process.
execute_interrupted(commands, fs, cwd) ==
    StageLoop(Redirect(RedirectInput([NewRun(commands, fs, cwd) EXCEPT !.sigint = TRUE])), 1)

----------------------------------------------------------------------------
(* The lines typed at the prompt *)

Text(tokens) == Join(tokens, <<SP>>)

\* Stages that run a program, with and without arguments and typos.
PlainStages ==
    { Text(<<w_echo, w_hi>>), Text(<<w_cat>>), Text(<<w_true>>), Text(<<w_Exit>>),
      Text(<<w_zz>>), Text(<<w_ct, w_f>>), Text(<<w_cat, w_m>>) }

\* Stages that name a built-in, or a word that may resolve to one.
BuiltinStages ==
    { Text(<<w_exit>>), Text(<<w_exit, w_hi>>), Text(<<w_exit, w_hi, w_f>>),
      Text(<<w_exot>>), Text(<<w_EXIT>>), Text(<<w_cd>>),
      Text(<<w_cd, d_home>>), Text(<<w_cd, d_work>>), Text(<<w_cd, d_ro>>),
      Text(<<w_cd, w_f>>), Text(<<w_cd, w_m>>), Text(<<w_dc>>),
      Text(<<w_cd, d_home, w_f>>) }

\* Stages with redirection operators.
RedirStages ==
    { Text(<<w_cat, LT, w_f>>), Text(<<w_cat, LT, w_m>>), Text(<<w_cat, LT, d_home>>),
      Text(<<w_cat, LT>>), Text(<<w_echo, w_hi, GT, w_o>>), Text(<<w_echo, GT, w_o, w_hi>>),
      Text(<<w_echo, w_hi, GT, w_f>>), Text(<<w_cat, LT, w_f, GT, w_o>>),
      Text(<<w_cat, GT, w_o, LT, w_f>>), Text(<<w_echo, w_hi, GT, d_home>>),
      Text(<<w_echo, w_hi, GT>>), Text(<<w_exit, LT, w_m>>), Text(<<w_exit, GT, w_o>>),
      Text(<<w_cd, GT, w_o>>), Text(<<w_true, GT, LEARN_FILE>>) }

\* Lines with quotes, and the blank lines.
QuotedLines ==
    { w_echo \o <<SP, DQ, "a", PIPE, "b", DQ>>,
      w_echo \o <<SP, SQ, "a", PIPE, "b", SQ>>,
      w_echo \o <<SP, DQ, "a", SP, "b", DQ>>,
      w_echo \o <<SP, DQ, "a", SP, "b", DQ, SP, PIPE, SP>> \o w_cat,
      w_echo \o <<SP, DQ, "a">>,
      w_echo \o <<SP, SQ, SQ>>,
      w_cd \o <<SP, DQ, "/", "h", DQ>> }

BlankLines == { <<>>, <<SP>>, <<SP, SP>> }

Stages == PlainStages \cup BuiltinStages \cup RedirStages \cup {<<>>}

\* The stages combined into pipelines of two stages: a first and a last one.
FirstStages ==
    { Text(<<w_echo, w_hi>>), Text(<<w_true>>), Text(<<w_zz>>), Text(<<w_exit>>),
      Text(<<w_cd>>), <<>>, Text(<<w_cat, LT, w_f>>), Text(<<w_cat, LT, w_m>>),
      Text(<<w_echo, w_hi, GT, w_o>>) }

LastStages ==
    { Text(<<w_cat>>), Text(<<w_true>>), Text(<<w_zz>>), Text(<<w_exit>>),
      Text(<<w_cd>>), Text(<<w_dc>>), <<>>, Text(<<w_cat, GT, w_o>>) }

\* Pipelines of three stages.
LongLines ==
    { Join(<<Text(<<w_echo, w_hi>>), Text(<<w_cat>>), Text(<<w_cat>>)>>, <<SP, PIPE, SP>>),
      Join(<<Text(<<w_echo, w_hi>>), <<>>, Text(<<w_cat>>)>>, <<PIPE>>),
      Join(<<Text(<<w_echo, w_hi>>), <<>>, Text(<<w_cd>>)>>, <<PIPE>>),
      Join(<<Text(<<w_echo, w_hi>>), Text(<<w_cat>>), Text(<<w_cd>>)>>, <<SP, PIPE, SP>>),
      Join(<<Text(<<w_true>>), Text(<<w_true>>), Text(<<w_true>>)>>, <<SP, PIPE, SP>>),
      Join(<<Text(<<w_cat, LT, w_f>>), Text(<<w_cat>>), Text(<<w_cat, GT, w_o>>)>>,
           <<SP, PIPE, SP>>),
      Join(<<<<>>, <<>>, Text(<<w_exit>>)>>, <<PIPE>>),
      <<PIPE, PIPE>> }

Lines ==
    Stages
    \cup { a \o <<PIPE>> \o b : a \in FirstStages, b \in LastStages }
    \cup LongLines \cup QuotedLines \cup BlankLines

----------------------------------------------------------------------------
(* shell_loop *)

VARIABLES
    pc,         \* "prompt": in the loop; "exited": status became 0;
                \* "eof": left by EOFError; "crashed": left by another exception
    status,     \* the loop variable of shell_loop
    cwd,        \* the working directory of the shell process
    fs,         \* the files
    nread,      \* the number of lines read so far
    line,       \* the last line read
    parsed,     \* the stages the last line was parsed into
    run,        \* the last run of execute_commands
    escaped,    \* the exception that left shell_loop, "" if none
    before,     \* the files and the working directory when the last line was read
    interrupted,\* where the last iteration was interrupted: "" (not at all),
                \* "input" (in input()) or "wait" (in execute_commands)
    learners    \* what each of the shells that share a working directory
                \* does in learn_command: [pc, command, learned, calls],
                \* calls being the number of calls it has made

vars == <<pc, status, cwd, fs, nread, line, parsed, run, escaped, before,
          interrupted, learners>>

\* The shells that share a working directory, and the calls of
\* learn_command each of them makes.
NumShells == 2
MaxLearns == 2

Procs == 1..NumShells

\* No run: execute_commands was not called for the last line.
NoRun(f, d) == [NewRun(<<>>, f, d) EXCEPT !.outcome = "none"]

Init ==
    /\ pc = "prompt"
    /\ status = Continue
    /\ cwd = d_work
    /\ fs = InitFs
    /\ nread = 0
    /\ line = <<>>
    /\ parsed = <<>>
    /\ run = NoRun(InitFs, d_work)
    /\ escaped = ""
    /\ before = [fs |-> InitFs, cwd |-> d_work]
    /\ interrupted = ""
    /\ learners = [p \in Procs |-> [pc |-> "idle", command |-> <<>>, learned |-> <<>>,
                                     calls |-> 0]]

\* Line 173: status = execute_commands(commands), r being the run.  An
\* exception other than EOFError and KeyboardInterrupt leaves shell_loop.
Executed(r) ==
    /\ run' = r
    /\ cwd' = r.cwd
    /\ fs' = r.fs
    /\ IF r.outcome = "raise"
       THEN /\ pc' = "crashed"
            /\ escaped' = r.exc
            /\ UNCHANGED status
       ELSE /\ status' = r.ret
            /\ pc' = IF r.ret = Terminate THEN "exited" ELSE "prompt"
            /\ UNCHANGED escaped

\* Lines 169-173, p being the line parsed: shlex.split raises ValueError.
Parsed(p) ==
    IF ~p.ok THEN
        /\ parsed' = <<>>
        /\ run' = NoRun(fs, cwd)
        /\ pc' = "crashed"
        /\ escaped' = "ValueError"
        /\ UNCHANGED <<status, cwd, fs>>
    ELSE
        /\ parsed' = p.commands
        /\ Executed(execute_commands(p.commands, fs, cwd))

\* One iteration of the while loop on a line that input() returned.
ReadLine(ln) ==
    /\ pc = "prompt"
    /\ nread < MaxLines
    /\ nread' = nread + 1
    /\ line' = ln
    /\ before' = [fs |-> fs, cwd |-> cwd]
    /\ interrupted' = ""
    /\ UNCHANGED learners
    /\ IF IsBlank(ln) THEN
           /\ parsed' = <<>>
           /\ run' = NoRun(fs, cwd)
           /\ UNCHANGED <<pc, status, cwd, fs, escaped>>
       ELSE Parsed(ParseLine(ln))

\* input() raises EOFError: the loop is left by break.
EndOfInput ==
    /\ pc = "prompt"
    /\ pc' = "eof"
    /\ interrupted' = ""
    /\ UNCHANGED <<status, cwd, fs, nread, line, parsed, run, escaped, before, learners>>

Next ==
    \/ \E ln \in Lines : ReadLine(ln)
    \/ EndOfInput

Spec == Init /\ [][Next]_vars

----------------------------------------------------------------------------
(* shell_loop with interrupts *)

\* shell_loop as it would be without the clause `except KeyboardInterrupt'.
HandledByContinue_None == {}

\* Lines 178-180: the exceptions after which the loop goes on.
HandledByContinue == {"KeyboardInterrupt"}

\* KeyboardInterrupt reaches the try statement of shell_loop.
Caught(where) ==
    /\ interrupted' = where
    /\ IF "KeyboardInterrupt" \in HandledByContinue
       THEN /\ pc' = "prompt"
            /\ UNCHANGED <<status, escaped>>
       ELSE /\ pc' = "crashed"
            /\ escaped' = "KeyboardInterrupt"
            /\ UNCHANGED status

\* The interrupt arrives while input() waits for a line.
InterruptInput ==
    /\ pc = "prompt"
    /\ Caught("input")
    /\ UNCHANGED <<cwd, fs, nread, line, parsed, run, before, learners>>

\* r is the run of execute_commands that the interrupt cut short.
InterruptedRun(r) ==
    /\ r.outcome = "raise"
    /\ r.exc = "KeyboardInterrupt"
    /\ run' = r
    /\ cwd' = r.cwd
    /\ fs' = r.fs
    /\ Caught("wait")

InterruptParsed(p) ==
    /\ p.ok
    /\ parsed' = p.commands
    /\ InterruptedRun(execute_interrupted(p.commands, fs, cwd))

\* A line is read and the interrupt arrives while execute_commands waits for
\* the process of a stage.
InterruptWait(ln) ==
    /\ pc = "prompt"
    /\ nread < MaxLines
    /\ ~IsBlank(ln)
    /\ nread' = nread + 1
    /\ line' = ln
    /\ before' = [fs |-> fs, cwd |-> cwd]
    /\ InterruptParsed(ParseLine(ln))
    /\ UNCHANGED learners

NextInterrupts ==
    \/ \E ln \in Lines : ReadLine(ln)
    \/ EndOfInput
    \/ InterruptInput
    \/ \E ln \in Lines : InterruptWait(ln)

SpecInterrupts == Init /\ [][NextInterrupts]_vars

----------------------------------------------------------------------------
(* learn_command called by several shells in one working directory *)

\* The names the shells learn: the programs, and one of COMMON_COMMANDS.
StoreNames == Learnable \cup {w_cat}

\* Line 133, learned being the list that was loaded: lines 134-136 have
\* nothing to do for a name that is common or already learned.
Loaded(p, command, learned) ==
    learners' = [learners EXCEPT ![p] =
        [pc |-> IF Contains(COMMON_COMMANDS, command) \/ Contains(learned, command)
                THEN "done" ELSE "loaded",
         command |-> command, learned |-> learned, calls |-> learners[p].calls + 1]]

\* learned = load_learned_commands()
LearnLoad(p, command) ==
    /\ learners[p].pc \in {"idle", "done"}
    /\ learners[p].calls < MaxLearns
    /\ Loaded(p, command, load_learned_commands(fs, cwd))
    /\ UNCHANGED fs
    /\ UNCHANGED <<pc, status, cwd, nread, line, parsed, run, escaped, before, interrupted>>

\* open(LEARN_FILE, "w") of save_learned_commands: the file is truncated.
LearnOpen(p) ==
    /\ learners[p].pc = "loaded"
    /\ fs' = OpenWrite(fs, cwd, LEARN_FILE).fs
    /\ learners' = [learners EXCEPT ![p].pc = "opened"]
    /\ UNCHANGED <<pc, status, cwd, nread, line, parsed, run, escaped, before, interrupted>>

\* A file written from its start by a writer that opened it with "w": the
\* data replaces the first characters of what the file holds by then, which
\* is nothing unless another writer has written since the file was opened.
Overwrite(old, data) == data \o SubSeq(old, Len(data) + 1, Len(old))

\* json.dump of save_learned_commands, with the name appended at line 135,
\* written when the file is closed.
LearnDump(p) ==
    /\ learners[p].pc = "opened"
    /\ fs' = Store(fs, cwd, LEARN_FILE,
                   Overwrite(fs[cwd][LEARN_FILE],
                             JsonDump(Append(learners[p].learned, learners[p].command))))
    /\ learners' = [learners EXCEPT ![p].pc = "done"]
    /\ UNCHANGED <<pc, status, cwd, nread, line, parsed, run, escaped, before, interrupted>>

NextStore ==
    \/ \E p \in Procs : \E command \in StoreNames : LearnLoad(p, command)
    \/ \E p \in Procs : LearnOpen(p)
    \/ \E p \in Procs : LearnDump(p)

SpecStore == Init /\ [][NextStore]_vars

----------------------------------------------------------------------------
(* What the properties are stated in *)

\* execute_commands was called for the last line read.
Ran == run.outcome \in {"return", "raise"}

\* The last run of execute_commands returned v.
Returned(v) == run.outcome = "return" /\ run.ret = v

\* The name the first token of a stage resolved to when the line was read.
ResolvedName(stage) == autocorrect_command(before.fs, before.cwd, stage[1])

\* A stage that names a program found on the search path.
ExternalStage(stage) == stage # <<>> /\ ResolvedName(stage) \in Executables

BuiltinStage(stage) == stage # <<>> /\ ResolvedName(stage) \in BUILTIN_COMMANDS

NoRedirection(stage) == ~Contains(stage, LT) /\ ~Contains(stage, GT)

\* The number of messages that reached the user about a failure: those
\* printed on sys.stderr and those shown by display_error.
ErrorsReported == Len(run.err) + Len(run.reports)

----------------------------------------------------------------------------
(* Pipelines and redirection *)

\* The last line was a pipeline of two or more stages, each naming a program
\* on the search path, with no redirection operator.
ExternalPipeline ==
    /\ Ran
    /\ Len(parsed) >= 2
    /\ \A i \in 1..Len(parsed) : ExternalStage(parsed[i]) /\ NoRedirection(parsed[i])

\* C1: in a pipeline of N >= 2 external stages without redirection every
\* stage is spawned, stage i+1 reads exactly what stage i wrote, and what is
\* printed on the shell's standard output is the output of the last stage,
\* once.
C1_PipelineWiring ==
    ExternalPipeline =>
        /\ Len(run.spawned) = Len(parsed)
        /\ \A i \in 1..(Len(run.spawned) - 1) :
               run.spawned[i + 1].input = run.spawned[i].stdout
        /\ run.out = run.spawned[Len(run.spawned)].stdout

\* The last line was one external stage whose last two tokens are `> path',
\* path being a plain name other than the learned-command store, in a
\* directory the shell may write to.
OutputRedirected ==
    /\ Ran
    /\ Len(parsed) = 1
    /\ Len(parsed[1]) >= 3
    /\ ExternalStage(parsed[1])
    /\ IndexOf(parsed[1] \o <<GT>>, GT) = Len(parsed[1]) - 1
    /\ ~Contains(parsed[1], LT)
    /\ parsed[1][Len(parsed[1])] \notin Dirs \cup {<<>>, LEARN_FILE}
    /\ Writable(before.cwd)

\* C2: with `> path' in the last stage the output of that stage is the new
\* content of the file at path, whatever the file held before, and is not
\* printed on the shell's standard output.
C2_OutputToFile ==
    OutputRedirected =>
        /\ Returned(Continue)
        /\ Len(run.spawned) = 1
        /\ Exists(fs, cwd, parsed[1][Len(parsed[1])])
        /\ fs[cwd][parsed[1][Len(parsed[1])]] = run.spawned[1].stdout
        /\ run.out = <<>>

\* The last line has a stage after the first that resolves to a built-in.
BuiltinAfterPipe ==
    /\ Ran
    /\ \E i \in 2..Len(parsed) : BuiltinStage(parsed[i])

\* C3: a built-in at a stage after the first makes execute_commands spawn
\* no process at all, report the misuse once and return Continue.
C3_BuiltinInPipeSpawnsNothing ==
    BuiltinAfterPipe =>
        /\ run.spawned = <<>>
        /\ ErrorsReported = 1
        /\ run.err = <<"built-in commands cannot be piped.">>
        /\ Returned(Continue)

----------------------------------------------------------------------------
(* The status of execute_commands and the end of shell_loop *)

\* C4: shell_loop ends only by a Terminate status or by end-of-input: no
\* error ends it, and no exception leaves it.
C4_NoErrorEndsLoop ==
    /\ pc # "crashed"
    /\ escaped = ""
    /\ pc = "exited" => Returned(Terminate) /\ run.builtins # <<>>

\* C5: execute_commands returns Terminate only for a pipeline of exactly one
\* stage that resolves to exit, and a pipeline of two or more stages
\* returns Continue.
C5_TerminateOnlyLoneExit ==
    /\ Returned(Terminate) => Len(parsed) = 1 /\ ResolvedName(parsed[1]) = w_exit
    /\ Ran /\ Len(parsed) >= 2 => Returned(Continue)

\* The last line was the single stage exit, with any arguments and no
\* redirection operator.
LoneExit ==
    /\ Ran
    /\ Len(parsed) = 1
    /\ parsed[1] # <<>>
    /\ ResolvedName(parsed[1]) = w_exit
    /\ NoRedirection(parsed[1])

\* C6: the single stage exit returns Terminate whatever its arguments are,
\* and no process is spawned.
C6_LoneExitTerminates ==
    LoneExit => Returned(Terminate) /\ run.spawned = <<>> /\ status = Terminate

\* exit was given two arguments and ended the loop.
C6_Witness ==
    LoneExit /\ Len(parsed[1]) = 3 /\ Returned(Terminate) /\ pc = "exited"

----------------------------------------------------------------------------
(* The tokens of a stage *)

\* The tokens without the first occurrence of op and the token after it.
StripPair(tokens, op) ==
    IF Contains(tokens, op) /\ IndexOf(tokens, op) < Len(tokens)
    THEN SubSeq(tokens, 1, IndexOf(tokens, op) - 1)
         \o SubSeq(tokens, IndexOf(tokens, op) + 2, Len(tokens))
    ELSE tokens

\* The token after the first occurrence of op.
PathAfter(tokens, op) == tokens[IndexOf(tokens, op) + 1]

\* The last line was one external stage with `< path' or `> path' or both,
\* every path one the shell can open.
RedirectedStage ==
    /\ Ran
    /\ Len(parsed) = 1
    /\ ExternalStage(parsed[1])
    /\ Contains(parsed[1], LT) \/ Contains(parsed[1], GT)
    /\ Contains(parsed[1], LT) =>
          /\ IndexOf(parsed[1], LT) < Len(parsed[1])
          /\ OpenRead(before.fs, before.cwd, PathAfter(parsed[1], LT)).err = ""
    /\ Contains(parsed[1], GT) =>
          /\ IndexOf(parsed[1], GT) < Len(parsed[1])
          /\ OpenWrite(before.fs, before.cwd, PathAfter(parsed[1], GT)).err = ""

\* C7: a redirection operator and the one token after it are removed and
\* recorded as the path; every other token stays an argument, in order; a
\* stage with both operators has both redirections, in either order.
C7_StripsTwoTokens ==
    RedirectedStage =>
        /\ Len(run.spawned) = 1
        /\ Tail(run.spawned[1].argv) = Tail(StripPair(StripPair(parsed[1], LT), GT))
        /\ Contains(parsed[1], LT) =>
              /\ run.spawned[1].stdin = "file"
              /\ run.handles[1].path = PathAfter(parsed[1], LT)
        /\ Contains(parsed[1], GT) =>
              /\ run.stdout_fd # 0
              /\ run.handles[run.stdout_fd].path = PathAfter(parsed[1], GT)

\* The stages that have a token.
NonEmptyStages(commands) == SelectSeq(commands, LAMBDA stage : stage # <<>>)

\* What a run of execute_commands did, without the positions of the stages.
Observable(r) ==
    [outcome |-> r.outcome, ret |-> r.ret, exc |-> r.exc, out |-> r.out, err |-> r.err,
     reports |-> r.reports, recorded |-> r.recorded, builtins |-> r.builtins,
     handles |-> r.handles, fs |-> r.fs, cwd |-> r.cwd,
     spawned |-> [k \in 1..Len(r.spawned) |->
                    [argv |-> r.spawned[k].argv, stdin |-> r.spawned[k].stdin,
                     input |-> r.spawned[k].input, stdout |-> r.spawned[k].stdout]]]

\* The last line had an empty stage substring beside a stage with a token.
HasEmptyStage ==
    /\ Ran
    /\ \E i \in 1..Len(parsed) : parsed[i] = <<>>
    /\ NonEmptyStages(parsed) # <<>>

\* C8: a line with empty stage substrings is executed as the same line
\* without them.
C8_NoPhantomStages ==
    HasEmptyStage =>
        Observable(run) =
            Observable(execute_commands(NonEmptyStages(parsed), before.fs, before.cwd))

\* The pieces of s between the `|' that are outside quotes.
RECURSIVE UnquotedPieces(_, _, _, _, _)
UnquotedPieces(s, k, quote, cur, acc) ==
    IF k > Len(s) THEN Append(acc, cur)
    ELSE IF quote = "" /\ s[k] = PIPE
         THEN UnquotedPieces(s, k + 1, "", <<>>, Append(acc, cur))
    ELSE UnquotedPieces(s, k + 1,
                        IF quote = "" /\ s[k] \in quotes THEN s[k]
                        ELSE IF quote = s[k] THEN "" ELSE quote,
                        Append(cur, s[k]), acc)

\* The stages of a line split at the pipes outside quotes.
QuotedStages(s) ==
    [k \in 1..Len(UnquotedPieces(s, 1, "", <<>>, <<>>)) |->
        shlex_split(UnquotedPieces(s, 1, "", <<>>, <<>>)[k])]

\* The last line read was not blank and every quote in it is closed.
WellQuoted ==
    /\ nread > 0
    /\ ~IsBlank(line)
    /\ \A k \in 1..Len(QuotedStages(line)) : QuotedStages(line)[k].ok

\* C9: a line is split into stages only at the `|' outside quotes: the
\* stages with a token are those of the pieces between the unquoted pipes.
C9_SplitsOutsideQuotes ==
    WellQuoted =>
        /\ escaped # "ValueError"
        /\ NonEmptyStages(parsed) =
              NonEmptyStages([k \in 1..Len(QuotedStages(line)) |-> QuotedStages(line)[k].toks])

----------------------------------------------------------------------------
(* cd *)

\* The last line was the single stage cd, without redirection operator.
LoneCd ==
    /\ Ran
    /\ Len(parsed) = 1
    /\ parsed[1] # <<>>
    /\ ResolvedName(parsed[1]) = w_cd
    /\ NoRedirection(parsed[1])

\* C10: cd without argument enters the home directory; cd to a path that is
\* missing or is no directory leaves the working directory as it was,
\* reports once and returns Continue, and the loop goes on.
C10_CdHomeAndFailure ==
    LoneCd =>
        /\ Len(parsed[1]) = 1 => cwd = d_home /\ Returned(Continue)
        /\ Len(parsed[1]) >= 2 /\ Chdir(before.fs, before.cwd, parsed[1][2]).err # "" =>
              /\ cwd = before.cwd
              /\ ErrorsReported = 1
              /\ Returned(Continue)
              /\ pc = "prompt"

----------------------------------------------------------------------------
(* Failures of redirection, of the record hook and of the spawn *)

\* The first stage of the last line has `< path' and open(path, 'r') fails.
InputUnopenable ==
    /\ Ran
    /\ Contains(parsed[1], LT)
    /\ IndexOf(parsed[1], LT) < Len(parsed[1])
    /\ OpenRead(before.fs, before.cwd, PathAfter(parsed[1], LT)).err # ""

\* C11: when the path after `<' in the first stage cannot be opened,
\* execute_commands returns Continue, reports once, spawns no process and
\* runs no built-in.
C11_InputUnopenableAborts ==
    InputUnopenable =>
        /\ Returned(Continue)
        /\ ErrorsReported = 1
        /\ run.spawned = <<>>
        /\ run.builtins = <<>>

\* The last line was external stages without redirection, and learn_command
\* fails for the name of the first one.
RecordFails ==
    /\ Ran
    /\ \A i \in 1..Len(parsed) : ExternalStage(parsed[i]) /\ NoRedirection(parsed[i])
    /\ learn_command(before.fs, before.cwd, ResolvedName(parsed[1])).err # ""

\* C12: a failure of learn_command does not abort the pipeline: nothing is
\* reported because of it and the stage it was called for counts as run.
C12_RecordFailureIgnored ==
    RecordFails =>
        /\ Returned(Continue)
        /\ run.spawned # <<>>
        /\ \A k \in 1..Len(run.reports) :
               run.reports[k].command # Text(run.spawned[1].argv)

C14_StderrPassedThrough ==
    Ran =>
        \A k \in 1..Len(run.spawned) :
            run.spawned[k].stderr # "" =>
                /\ \E j \in 1..Len(run.err) : run.err[j] = run.spawned[k].stderr
                /\ \A j \in 1..Len(run.reports) :
                       run.reports[j].details # run.spawned[k].stderr

\* The last line was one stage that resolves to a built-in and has a
\* redirection operator followed by a path.
LoneBuiltinRedirected ==
    /\ Ran
    /\ Len(parsed) = 1
    /\ BuiltinStage(parsed[1])
    /\ Contains(parsed[1], LT) \/ Contains(parsed[1], GT)
    /\ Contains(parsed[1], LT) => IndexOf(parsed[1], LT) < Len(parsed[1])
    /\ Contains(parsed[1], GT) => IndexOf(parsed[1], GT) < Len(parsed[1])

\* C15: redirection on a lone built-in has no effect: the handler is invoked
\* and its result returned, no file is created, truncated or needed, no file
\* is opened and no process is spawned.
C15_BuiltinIgnoresRedirection ==
    LoneBuiltinRedirected =>
        /\ run.outcome = "return"
        /\ Len(run.builtins) = 1
        /\ run.ret = IF run.builtins[1].name = w_exit THEN Terminate ELSE Continue
        /\ fs = before.fs
        /\ run.handles = <<>>
        /\ ErrorsReported = 0
        /\ run.spawned = <<>>

\* The positions in the events of the operations op.
EventsOf(r, op) == {k \in 1..Len(r.events) : r.events[k].op = op}

\* C16: in a pipeline of external stages every stage is spawned before the
\* shell waits for any of them, and the shell itself prints none of their
\* output.
C16_SpawnAllThenWait ==
    ExternalPipeline =>
        /\ Cardinality(EventsOf(run, "spawn")) = Len(parsed)
        /\ \A s \in EventsOf(run, "spawn") : \A w \in EventsOf(run, "wait") : s < w
        /\ run.out = <<>>

\* Stage k of the last line is the first stage with a token, has no
\* redirection operator, and names no built-in and no program that can be
\* found or run: it is the stage whose spawn fails on looking up the command.
\* (A stage after a spawned one never gets that far: its spawn fails on the
\* stdin it is given.)
NotFoundAt(k) ==
    /\ Ran
    /\ k \in 1..Len(parsed)
    /\ parsed[k] # <<>>
    /\ \A j \in 1..Len(parsed) : NoRedirection(parsed[j])
    /\ \A j \in 1..(k - 1) : parsed[j] = <<>>
    /\ ResolvedName(parsed[k]) \notin Executables \cup BUILTIN_COMMANDS \cup Dirs \cup {<<>>}

C18_HandlesClosedOnReturn ==
    run.outcome = "return" =>
        \A h \in 1..Len(run.handles) : ~run.handles[h].open

\* The last stage of the last line has `> path', open(path, 'w') fails, and
\* the first stage has no `<'.
OutputUnwritable ==
    /\ Ran
    /\ ~Contains(parsed[1], LT)
    /\ Contains(parsed[Len(parsed)], GT)
    /\ IndexOf(parsed[Len(parsed)], GT) < Len(parsed[Len(parsed)])
    /\ OpenWrite(before.fs, before.cwd, PathAfter(parsed[Len(parsed)], GT)).err # ""

\* C19: when the path after `>' in the last stage cannot be opened for
\* writing, execute_commands itself handles the failure: nothing is spawned,
\* the failure is reported, Continue is returned and the loop goes on.
C19_OutputUnwritableAborts ==
    OutputUnwritable =>
        /\ Returned(Continue)
        /\ run.spawned = <<>>
        /\ ErrorsReported = 1
        /\ pc = "prompt"
        /\ escaped = ""

\* The last line has `<' as the last token of its first stage, or, there
\* being no `<' in the first stage, `>' as the last token of its last stage.
DanglingOperator ==
    /\ Ran
    /\ \/ /\ Contains(parsed[1], LT)
          /\ IndexOf(parsed[1], LT) = Len(parsed[1])
       \/ /\ ~Contains(parsed[1], LT)
          /\ Contains(parsed[Len(parsed)], GT)
          /\ IndexOf(parsed[Len(parsed)], GT) = Len(parsed[Len(parsed)])

\* C20: a redirection operator with no file name after it is a parse error:
\* no file is opened, nothing is spawned, the error is reported and the loop
\* goes on with the next line.
C20_DanglingOperatorReported ==
    DanglingOperator =>
        /\ run.handles = <<>>
        /\ fs = before.fs
        /\ run.spawned = <<>>
        /\ ErrorsReported = 1
        /\ pc = "prompt"
        /\ escaped = ""

----------------------------------------------------------------------------
(* The calls of display_error *)

\* The last run went through the whole loop and returned at its end: every
\* stage with a token was spawned, and the last one got as far as line 133,
\* where the captured output becomes prev_pipe.
CompletedAll ==
    /\ run.outcome = "return"
    /\ run.builtins = <<>>
    /\ Len(run.spawned) = Len(NonEmptyStages(run.commands))
    /\ run.spawned # <<>> => run.prev_pipe.kind = "str"

\* The last run invoked no built-in and returned before the end of the loop.
Aborted ==
    /\ run.outcome = "return"
    /\ run.builtins = <<>>
    /\ ~CompletedAll

\* C21: display_error is called once by a run that aborts and not at all by
\* a run that does not abort; a process that exits with a non-zero status
\* does not change the result.
C21_OneReportPerAbort ==
    /\ Aborted => Len(run.reports) = 1
    /\ CompletedAll => run.reports = <<>> /\ Returned(Continue)

----------------------------------------------------------------------------
(* Interrupts *)

----------------------------------------------------------------------------
(* The learned-command store under several writers *)

\* The names in the store file of the working directory.
Stored == load_learned_commands(fs, cwd)

\* Shells p and q have each finished a call of learn_command, for different
\* names that are not among COMMON_COMMANDS.
BothLearned(p, q) ==
    /\ p # q
    /\ learners[p].pc = "done" /\ learners[p].command \in Learnable
    /\ learners[q].pc = "done" /\ learners[q].command \in Learnable
    /\ learners[p].command # learners[q].command

\* C23: when two shells have learned different new names, whatever the order
\* of their steps, both names are in the store, and the store holds no name
\* twice and no name of COMMON_COMMANDS.
C23_NoLostUpdate ==
    /\ \A p, q \in Procs :
           BothLearned(p, q) =>
               /\ Contains(Stored, learners[p].command)
               /\ Contains(Stored, learners[q].command)
    /\ \A j, k \in 1..Len(Stored) : j # k => Stored[j] # Stored[k]
    /\ \A k \in 1..Len(Stored) : ~Contains(COMMON_COMMANDS, Stored[k])

=============================================================================
